---- MODULE Spec2Model ----
(***************************************************************************)
(* A model of the Pips solving core: the constraint evaluator of           *)
(* src/csp.py, the backtracking solver csp.solve_pips, the A* solver       *)
(* a_star_search.solve_pips and the simulated annealing solver             *)
(* simulated_annealing.solve_pips, run on small boards.                    *)
(*                                                                         *)
(* Cells are pairs <<r, c>>; a region is a record [cells, type, target];   *)
(* a board is a record [dominoes, regions]; a placement is a triple        *)
(* <<c1, c2, <<v1, v2>>>>; a grid is a function from a set of cells to     *)
(* pip values (a Python dict).                                             *)
(***************************************************************************)
EXTENDS Integers, Sequences, FiniteSets, TLC

VARIABLES
    board,              \* the Board handed to the solvers (read-only)
    phase,              \* which solver call is in progress
    \* ---- csp.solve_pips
    grid,               \* grid = {}            (csp.py:124)
    used,               \* used = [False] * n   (csp.py:125)
    remaining_domains,  \* per-domino lists     (csp.py:122)
    unused_values,      \* Counter of pips      (csp.py:138)
    stack,              \* the active dfs frames, innermost last
    pc,                 \* position inside dfs
    solution,           \* nonlocal solution    (csp.py:126)
    csp_result,         \* what solve_pips returned
    \* ---- a_star_search.solve_pips
    frontier,           \* heap entries         (a_star_search.py:109)
    counter,            \* insertion sequence   (a_star_search.py:111)
    visited,            \* visited state keys   (a_star_search.py:115)
    astar_result,       \* what solve_pips returned, or that it raised
    \* ---- simulated_annealing.solve_pips
    sa_pc,              \* position inside the restart / iteration loops
    restart,            \* for restart in range(restarts)
    it,                 \* for it in range(max_iters)
    state,              \* current state: one placement per domino
    energy,             \* tracked energy of state
    best_global,        \* best state over finished restarts
    best_global_energy, \* its energy (Inf when none)
    sa_result,          \* what solve_pips returned, or that it raised
    sa_returned,        \* the state converted to the returned grid
    \* ---- constraint evaluator, applied to drawn inputs
    ev_region, ev_values, ev_pool,  \* the drawn arguments
    ev_done,                        \* whether the evaluator has been applied
    ev_partial, ev_full,            \* what region_ok_partial / _full returned
    \* ---- goal tests, applied to a drawn search state
    goal_mask, goal_grid,           \* the state (used_mask, grid)
    goal_done,                      \* whether the goal tests have been applied
    goal_astar, goal_csp,           \* what is_goal / the dfs final test returned
    \* ---- repeated calls of csp.solve_pips
    run,                            \* which call is in progress (1 or 2)
    first_result,                   \* what the first call returned
    \* ---- eval_time.timed_solve / evaluate_solvers on one board
    harness_pc,         \* position of the parent process
    solver,             \* which solver is being timed
    solver_fn,          \* what solver_fn(puzzle) does in the worker of this run
    child,              \* the worker process p
    conn,               \* what the worker has sent and the parent not yet received
    elapsed,            \* time.perf_counter() - start, in ticks
    ret,                \* what timed_solve returned: (solution, time)
    results,            \* results[solver]["times"], results[solver]["solved"]
    failed,             \* failed_backtracking and failed_annealing
    runs                \* how each finished call of timed_solve ended

vars == <<board, phase, grid, used, remaining_domains, unused_values, stack, pc,
          solution, csp_result, frontier, counter, visited, astar_result,
          sa_pc, restart, it, state, energy, best_global, best_global_energy,
          sa_result, sa_returned,
          ev_region, ev_values, ev_pool, ev_done, ev_partial, ev_full,
          goal_mask, goal_grid, goal_done, goal_astar, goal_csp,
          run, first_result,
          harness_pc, solver, solver_fn, child, conn, elapsed, ret, results,
          failed, runs>>

cspVars == <<grid, used, remaining_domains, unused_values, stack, pc,
             solution, csp_result>>
astarVars == <<frontier, counter, visited, astar_result>>
saVars == <<sa_pc, restart, it, state, energy, best_global, best_global_energy,
            sa_result, sa_returned>>
evVars == <<ev_region, ev_values, ev_pool, ev_done, ev_partial, ev_full>>
goalVars == <<goal_mask, goal_grid, goal_done, goal_astar, goal_csp>>
runVars == <<run, first_result>>
harnessVars == <<harness_pc, solver, solver_fn, child, conn, elapsed, ret,
                 results, failed, runs>>

(***************************************************************************)
(* Bounds of the model.                                                    *)
(***************************************************************************)
MaxPip == 2        \* pip values are 0..MaxPip (0..6 in the game)
MaxTarget == 3     \* region targets are 0..MaxTarget
MaxIters == 2      \* max_iters of the annealing call
MaxRestarts == 2   \* restarts of the annealing call
MaxPool == 3       \* pool sizes of the evaluator's drawn inputs

PipValues == 0..MaxPip

\* what a solver call ends with: a grid, None, or an exception
Idle == [kind |-> "idle", grid |-> <<>>]
Pending == [kind |-> "pending", grid |-> <<>>]
ReturnNone == [kind |-> "none", grid |-> <<>>]
ReturnGrid(g) == [kind |-> "grid", grid |-> g]
Raises == [kind |-> "raised", grid |-> <<>>]

\* float("inf") as the initial best_global_energy
Inf == -1

(***************************************************************************)
(* Helpers for Python lists, sets and sums.                                *)
(***************************************************************************)
RECURSIVE SeqSum(_)
SeqSum(s) == IF s = <<>> THEN 0 ELSE Head(s) + SeqSum(Tail(s))

ToSet(s) == {s[i] : i \in DOMAIN s}

Min2(a, b) == IF a <= b THEN a ELSE b
Max2(a, b) == IF a >= b THEN a ELSE b

\* s[:n] of Python, n negative included
Take(s, n) ==
    SubSeq(s, 1, IF n >= 0 THEN Min2(n, Len(s)) ELSE Max2(Len(s) + n, 0))

Reverse(s) == [i \in 1..Len(s) |-> s[Len(s) + 1 - i]]

RECURSIVE Repeat(_, _)
Repeat(v, n) == IF n <= 0 THEN <<>> ELSE <<v>> \o Repeat(v, n - 1)

\* sorted(all_unused): every pip value v of the Counter repeated pool[v]
\* times, ascending
RECURSIVE SortedFrom(_, _)
SortedFrom(pool, v) ==
    IF v \notin DOMAIN pool THEN <<>>
    ELSE Repeat(v, pool[v]) \o SortedFrom(pool, v + 1)

SortedUnused(pool) == SortedFrom(pool, 0)

(***************************************************************************)
(* Constraint evaluator (src/csp.py).                                      *)
(***************************************************************************)
\* mutant: the bounds of a sum region are compared strictly
BoundsOk_Strict(region, values, pool) ==
    LET remaining == Len(region.cells) - Len(values)
        all_unused == SortedUnused(pool)
        min_possible == SeqSum(values) + SeqSum(Take(all_unused, remaining))
        max_possible == SeqSum(values) + SeqSum(Take(Reverse(all_unused), remaining))
    IN  IF Len(all_unused) < remaining THEN FALSE
        ELSE IF region.type = "less" THEN min_possible < region.target
        ELSE IF region.type = "greater" THEN max_possible > region.target
        ELSE IF region.type = "sum"
             THEN min_possible < region.target /\ max_possible > region.target
        ELSE TRUE

\* mutant: the pool is not tested for holding enough values
BoundsOk_NoCountCheck(region, values, pool) ==
    LET remaining == Len(region.cells) - Len(values)
        all_unused == SortedUnused(pool)
        min_possible == SeqSum(values) + SeqSum(Take(all_unused, remaining))
        max_possible == SeqSum(values) + SeqSum(Take(Reverse(all_unused), remaining))
    IN  IF region.type = "less" THEN min_possible < region.target
        ELSE IF region.type = "greater" THEN max_possible > region.target
        ELSE IF region.type = "sum"
             THEN min_possible <= region.target /\ max_possible >= region.target
        ELSE TRUE

\* the tail of region_ok_partial for sum / less / greater regions
BoundsOk(region, values, pool) ==
    LET remaining == Len(region.cells) - Len(values)
        all_unused == SortedUnused(pool)
        min_fill == SeqSum(Take(all_unused, remaining))
        max_fill == SeqSum(Take(Reverse(all_unused), remaining))
        current_sum == SeqSum(values)
        min_possible == current_sum + min_fill
        max_possible == current_sum + max_fill
    IN  IF Len(all_unused) < remaining THEN FALSE
        ELSE IF region.type = "less" THEN min_possible < region.target
        ELSE IF region.type = "greater" THEN max_possible > region.target
        ELSE IF region.type = "sum"
             THEN min_possible <= region.target /\ max_possible >= region.target
        ELSE TRUE

\* mutant: the feasibility test of an equals region is off by one
EqualsPartialOk_OffByOne(region, values, pool) ==
    LET remaining == Len(region.cells) - Len(values)
    IN  IF Len(values) > 1 /\ Cardinality(ToSet(values)) > 1 THEN FALSE
        ELSE IF Len(values) = 0 THEN TRUE
        ELSE IF pool[values[1]] <= remaining THEN FALSE
        ELSE TRUE

\* mutant: an equals region fails when fewer cells remain than the count of
\* its value in the pool
EqualsPartialOk_Inverted(region, values, pool) ==
    LET remaining == Len(region.cells) - Len(values)
    IN  IF Len(values) > 1 /\ Cardinality(ToSet(values)) > 1 THEN FALSE
        ELSE IF Len(values) = 0 THEN TRUE
        ELSE IF remaining < pool[values[1]] THEN FALSE
        ELSE TRUE

EqualsPartialOk(region, values, pool) ==
    LET remaining == Len(region.cells) - Len(values)
    IN  IF Len(values) > 1 /\ Cardinality(ToSet(values)) > 1 THEN FALSE
        ELSE IF Len(values) = 0 THEN TRUE
        ELSE IF pool[values[1]] < remaining THEN FALSE
        ELSE TRUE

\* mutant: a notequals region is not tested for the distinct values left
NotEqualsPartialOk_NoAvail(region, values, pool) ==
    Len(values) = Cardinality(ToSet(values))

\* mutant: every pip value with a positive count is counted as available,
\* the collected values included
NotEqualsPartialOk_AnyValue(region, values, pool) ==
    LET remaining == Len(region.cells) - Len(values)
        distinct_available == Cardinality({v \in DOMAIN pool : pool[v] > 0})
    IN  IF Len(values) # Cardinality(ToSet(values)) THEN FALSE
        ELSE IF distinct_available < remaining THEN FALSE
        ELSE TRUE

NotEqualsPartialOk(region, values, pool) ==
    LET remaining == Len(region.cells) - Len(values)
        used_set == ToSet(values)
        distinct_available ==
            Cardinality({v \in DOMAIN pool : pool[v] > 0 /\ v \notin used_set})
    IN  IF Len(values) # Cardinality(ToSet(values)) THEN FALSE
        ELSE IF distinct_available < remaining THEN FALSE
        ELSE TRUE

region_ok_partial(region, values, pool) ==
    IF region.type = "empty" THEN TRUE
    ELSE IF region.type = "equals" THEN EqualsPartialOk(region, values, pool)
    ELSE IF region.type = "notequals" THEN NotEqualsPartialOk(region, values, pool)
    ELSE BoundsOk(region, values, pool)

\* mutant: "less" accepts a total equal to the target
region_ok_full_AtMost(region, values) ==
    IF region.type = "empty" THEN TRUE
    ELSE IF region.type = "equals" THEN Cardinality(ToSet(values)) = 1
    ELSE IF region.type = "notequals" THEN Len(values) = Cardinality(ToSet(values))
    ELSE IF region.type = "less" THEN SeqSum(values) <= region.target
    ELSE IF region.type = "greater" THEN SeqSum(values) > region.target
    ELSE IF region.type = "sum" THEN SeqSum(values) = region.target
    ELSE TRUE

region_ok_full(region, values) ==
    IF region.type = "empty" THEN TRUE
    ELSE IF region.type = "equals" THEN Cardinality(ToSet(values)) = 1
    ELSE IF region.type = "notequals" THEN Len(values) = Cardinality(ToSet(values))
    ELSE IF region.type = "less" THEN SeqSum(values) < region.target
    ELSE IF region.type = "greater" THEN SeqSum(values) > region.target
    ELSE IF region.type = "sum" THEN SeqSum(values) = region.target
    ELSE TRUE

(***************************************************************************)
(* Domain model (src/board_objects.py).                                    *)
(***************************************************************************)
AllRegionCells(b) ==
    UNION {ToSet(b.regions[i].cells) : i \in DOMAIN b.regions}

\* Board._build_region_map: a later region overwrites an earlier one;
\* 0 stands for "no region" (dict.get returning None)
RegionOf(b, c) ==
    LET owners == {i \in DOMAIN b.regions : c \in ToSet(b.regions[i].cells)}
    IN  IF owners = {} THEN 0
        ELSE CHOOSE i \in owners : \A j \in owners : j <= i

\* valid_cells = set(region_map.keys())
ValidCells(b) == AllRegionCells(b)

\* Board._compute_size
Rows(b) ==
    (CHOOSE m \in {c[1] : c \in AllRegionCells(b)} :
        \A c \in AllRegionCells(b) : c[1] <= m) + 1
Cols(b) ==
    (CHOOSE m \in {c[2] : c \in AllRegionCells(b)} :
        \A c \in AllRegionCells(b) : c[2] <= m) + 1

\* the placements of one domino at cell (r, c), in generation order
PlacementsAt(b, dom, r, c) ==
    LET a == dom[1]
        bb == dom[2]
        flip(c1, c2) == IF a = bb THEN <<>> ELSE << <<c1, c2, <<bb, a>>>> >>
        horiz == IF c + 1 < Cols(b)
                 THEN << <<<<r, c>>, <<r, c + 1>>, <<a, bb>>>> >>
                      \o flip(<<r, c>>, <<r, c + 1>>)
                 ELSE <<>>
        vert == IF r + 1 < Rows(b)
                THEN << <<<<r, c>>, <<r + 1, c>>, <<a, bb>>>> >>
                     \o flip(<<r, c>>, <<r + 1, c>>)
                ELSE <<>>
    IN  horiz \o vert

RECURSIVE PlacementsFrom(_, _, _)
PlacementsFrom(b, dom, k) ==
    IF k >= Rows(b) * Cols(b) THEN <<>>
    ELSE PlacementsAt(b, dom, k \div Cols(b), k % Cols(b))
         \o PlacementsFrom(b, dom, k + 1)

\* Board.generate_domino_placements(domino): every adjacent cell pair of the
\* bounding box, in both orientations unless the domino is a double
generate_domino_placements(b, dom) == PlacementsFrom(b, dom, 0)

\* Board.generate_all_domino_placements(): one list per domino
generate_all_domino_placements(b) ==
    [i \in DOMAIN b.dominoes |-> generate_domino_placements(b, b.dominoes[i])]

(***************************************************************************)
(* Grids (Python dicts keyed by cell).                                     *)
(***************************************************************************)
EmptyGrid == [c \in {} |-> 0]

Put(g, c, v) == [x \in DOMAIN g \cup {c} |-> IF x = c THEN v ELSE g[x]]

Del(g, c) == [x \in DOMAIN g \ {c} |-> g[x]]

\* [grid[c] for c in region.cells if c in grid]
RECURSIVE ValsIn(_, _)
ValsIn(cells, g) ==
    IF cells = <<>> THEN <<>>
    ELSE (IF Head(cells) \in DOMAIN g THEN <<g[Head(cells)]>> ELSE <<>>)
         \o ValsIn(Tail(cells), g)

(***************************************************************************)
(* Backtracking solver (src/csp.py, solve_pips and its closures).          *)
(***************************************************************************)
\* mutant: only the first value of each domino is counted
RECURSIVE InitialUnused_FirstValueOnly(_)
InitialUnused_FirstValueOnly(doms) ==
    IF doms = <<>> THEN [v \in PipValues |-> 0]
    ELSE LET rest == InitialUnused_FirstValueOnly(Tail(doms))
             a == Head(doms)[1]
             bb == Head(doms)[2]
             grown == [v \in DOMAIN rest \cup (0..Max2(a, bb)) |->
                          IF v \in DOMAIN rest THEN rest[v] ELSE 0]
         IN  [grown EXCEPT ![a] = @ + 1]

\* unused_values = Counter() filled from the dominoes (csp.py:138-142)
RECURSIVE InitialUnused(_)
InitialUnused(doms) ==
    IF doms = <<>> THEN [v \in PipValues |-> 0]
    ELSE LET rest == InitialUnused(Tail(doms))
             a == Head(doms)[1]
             bb == Head(doms)[2]
             grown == [v \in DOMAIN rest \cup (0..Max2(a, bb)) |->
                          IF v \in DOMAIN rest THEN rest[v] ELSE 0]
             one == [grown EXCEPT ![a] = @ + 1]
         IN  [one EXCEPT ![bb] = @ + 1]

\* all(used)
AllUsed(u) == \A i \in DOMAIN u : u[i]

\* mutant: among equally small domains the highest index wins
select_domino_LastTie(u, domains) ==
    LET cand == {i \in DOMAIN u : ~u[i]}
    IN  CHOOSE i \in cand :
            \A j \in cand :
                \/ Len(domains[i]) < Len(domains[j])
                \/ Len(domains[i]) = Len(domains[j]) /\ i >= j

\* select_domino: the first unused domino of minimal domain size
select_domino(u, domains) ==
    LET cand == {i \in DOMAIN u : ~u[i]}
    IN  CHOOSE i \in cand :
            \A j \in cand :
                \/ Len(domains[i]) < Len(domains[j])
                \/ Len(domains[i]) = Len(domains[j]) /\ i <= j

\* the values placement_is_valid collects for the region of the first cell
Vals1(b, g, p) ==
    ValsIn(b.regions[RegionOf(b, p[1])].cells, g) \o <<p[3][1]>>
    \o (IF RegionOf(b, p[1]) = RegionOf(b, p[2]) THEN <<p[3][2]>> ELSE <<>>)

\* the values it collects for the region of the second cell
Vals2(b, g, p) ==
    ValsIn(b.regions[RegionOf(b, p[2])].cells, g) \o <<p[3][2]>>

\* mutant: the two cells are not tested against valid_cells
placement_is_valid_NoCellCheck(b, g, pool, p) ==
    LET reg1 == RegionOf(b, p[1])
        reg2 == RegionOf(b, p[2])
    IN  IF reg1 # 0 /\ ~region_ok_partial(b.regions[reg1], Vals1(b, g, p), pool)
             THEN FALSE
        ELSE IF reg2 # 0 /\ reg2 # reg1
                /\ ~region_ok_partial(b.regions[reg2], Vals2(b, g, p), pool)
             THEN FALSE
        ELSE TRUE

\* mutant: the region of the second cell is not tested
placement_is_valid_FirstCellOnly(b, g, pool, p) ==
    LET reg1 == RegionOf(b, p[1])
    IN  IF p[1] \notin ValidCells(b) \/ p[2] \notin ValidCells(b) THEN FALSE
        ELSE IF reg1 # 0 /\ ~region_ok_partial(b.regions[reg1], Vals1(b, g, p), pool)
             THEN FALSE
        ELSE TRUE

\* placement_is_valid(c1, c2, v1, v2) against the grid g and the pool
placement_is_valid(b, g, pool, p) ==
    LET c1 == p[1]
        c2 == p[2]
        reg1 == RegionOf(b, c1)
        reg2 == RegionOf(b, c2)
        vals1 == Vals1(b, g, p)
        vals2 == Vals2(b, g, p)
    IN  IF c1 \notin ValidCells(b) \/ c2 \notin ValidCells(b) THEN FALSE
        ELSE IF reg1 # 0 /\ ~region_ok_partial(b.regions[reg1], vals1, pool)
             THEN FALSE
        ELSE IF reg2 # 0 /\ reg2 # reg1
                /\ ~region_ok_partial(b.regions[reg2], vals2, pool)
             THEN FALSE
        ELSE TRUE

\* mutant: forward_check does not look at the occupied cells
FcKeeps_ValidOnly(b, g, pool, p) ==
    placement_is_valid(b, g, pool, p)

\* the test forward_check applies to one placement of an unused domino
FcKeeps(b, g, pool, p) ==
    /\ p[1] \notin DOMAIN g
    /\ p[2] \notin DOMAIN g
    /\ placement_is_valid(b, g, pool, p)

\* forward_check: removed = [(i, removed_i)] for the unused dominoes that
\* lose placements, in index order
RECURSIVE FcRemoved(_, _, _, _, _, _)
FcRemoved(b, g, pool, u, domains, i) ==
    IF i > Len(domains) THEN <<>>
    ELSE LET removed_i == SelectSeq(domains[i], LAMBDA p : ~FcKeeps(b, g, pool, p))
         IN  (IF ~u[i] /\ removed_i # <<>> THEN << <<i, removed_i>> >> ELSE <<>>)
             \o FcRemoved(b, g, pool, u, domains, i + 1)

\* forward_check: the domains it leaves
FcDomains(b, g, pool, u, domains) ==
    [i \in DOMAIN domains |->
        IF u[i] THEN domains[i]
        ELSE SelectSeq(domains[i], LAMBDA p : FcKeeps(b, g, pool, p))]

\* mutant: only the first recorded removal is restored
undo_forward_check_FirstOnly(domains, removed) ==
    IF removed = <<>> THEN domains
    ELSE [domains EXCEPT ![Head(removed)[1]] = @ \o Head(removed)[2]]

\* undo_forward_check(removed)
RECURSIVE undo_forward_check(_, _)
undo_forward_check(domains, removed) ==
    IF removed = <<>> THEN domains
    ELSE undo_forward_check(
            [domains EXCEPT ![Head(removed)[1]] = @ \o Head(removed)[2]],
            Tail(removed))

\* mutant: the final test without the coverage check
DfsGoalOk_NoCoverage(b, g) ==
    \A r \in DOMAIN b.regions :
        region_ok_full(b.regions[r], ValsIn(b.regions[r].cells, g))

\* the test dfs makes once every domino is used (csp.py:236-245)
DfsGoalOk(b, g) ==
    /\ Cardinality(DOMAIN g) = Cardinality(ValidCells(b))
    /\ DOMAIN g = ValidCells(b)
    /\ \A r \in DOMAIN b.regions :
          region_ok_full(b.regions[r],
                         [k \in DOMAIN b.regions[r].cells |-> g[b.regions[r].cells[k]]])

\* what a dfs call remembers of the state in which it committed its candidate
NoSaved == [set |-> FALSE, grid |-> EmptyGrid, unused_values |-> <<>>,
            remaining_domains |-> <<>>]

Saved(g, pool, domains) ==
    [set |-> TRUE, grid |-> g, unused_values |-> pool, remaining_domains |-> domains]

Top == stack[Len(stack)]
SetTop(f) == [stack EXCEPT ![Len(stack)] = f]
Pop == SubSeq(stack, 1, Len(stack) - 1)

\* dfs entered with every domino used: the final test
DfsGoal ==
    /\ phase = "csp" /\ pc = "enter" /\ AllUsed(used)
    /\ IF DfsGoalOk(board, grid)
       THEN solution' = grid /\ pc' = "ret_true"
       ELSE solution' = solution /\ pc' = "ret_false"
    /\ UNCHANGED <<board, phase, grid, used, remaining_domains, unused_values,
                   stack, csp_result, astarVars, saVars, evVars, goalVars, runVars, harnessVars>>

\* dfs entered with a domino left: select it and start on its placements
DfsSelect ==
    /\ phase = "csp" /\ pc = "enter" /\ ~AllUsed(used)
    /\ LET d == select_domino(used, remaining_domains)
       IN  /\ used' = [used EXCEPT ![d] = TRUE]
           /\ stack' = Append(stack, [d |-> d, i |-> 1, removed |-> <<>>,
                                     saved |-> NoSaved])
    /\ pc' = "loop"
    /\ UNCHANGED <<board, phase, grid, remaining_domains, unused_values,
                   solution, csp_result, astarVars, saVars, evVars, goalVars, runVars, harnessVars>>

\* the candidate is rejected: a cell is occupied or placement_is_valid fails
DfsSkip ==
    /\ phase = "csp" /\ pc = "loop"
    /\ Top.i <= Len(remaining_domains[Top.d])
    /\ LET p == remaining_domains[Top.d][Top.i]
       IN  \/ p[1] \in DOMAIN grid
           \/ p[2] \in DOMAIN grid
           \/ ~placement_is_valid(board, grid, unused_values, p)
    /\ stack' = SetTop([Top EXCEPT !.i = @ + 1])
    /\ UNCHANGED <<board, phase, grid, used, remaining_domains, unused_values,
                   pc, solution, csp_result, astarVars, saVars, evVars, goalVars, runVars, harnessVars>>

\* the candidate is committed, forward_check runs and dfs is called
DfsPlace ==
    /\ phase = "csp" /\ pc = "loop"
    /\ Top.i <= Len(remaining_domains[Top.d])
    /\ LET p == remaining_domains[Top.d][Top.i]
           g2 == Put(Put(grid, p[1], p[3][1]), p[2], p[3][2])
           dec1 == [unused_values EXCEPT ![p[3][1]] = @ - 1]
           pool2 == [dec1 EXCEPT ![p[3][2]] = @ - 1]
       IN  /\ p[1] \notin DOMAIN grid
           /\ p[2] \notin DOMAIN grid
           /\ placement_is_valid(board, grid, unused_values, p)
           /\ grid' = g2
           /\ unused_values' = pool2
           /\ remaining_domains' =
                  FcDomains(board, g2, pool2, used, remaining_domains)
           /\ stack' = SetTop([Top EXCEPT
                  !.removed = FcRemoved(board, g2, pool2, used, remaining_domains, 1),
                  !.saved = Saved(grid, unused_values, remaining_domains)])
    /\ pc' = "enter"
    /\ UNCHANGED <<board, phase, used, solution, csp_result,
                   astarVars, saVars, evVars, goalVars, runVars, harnessVars>>

\* the recursive call returned False: undo and go to the next candidate
DfsUndo ==
    /\ phase = "csp" /\ pc = "ret_false" /\ stack # <<>>
    /\ LET p == remaining_domains[Top.d][Top.i]
           inc1 == [unused_values EXCEPT ![p[3][1]] = @ + 1]
       IN  /\ remaining_domains' = undo_forward_check(remaining_domains, Top.removed)
           /\ unused_values' = [inc1 EXCEPT ![p[3][2]] = @ + 1]
           /\ grid' = Del(Del(grid, p[1]), p[2])
    /\ stack' = SetTop([Top EXCEPT !.i = @ + 1, !.removed = <<>>])
    /\ pc' = "loop"
    /\ UNCHANGED <<board, phase, used, solution, csp_result,
                   astarVars, saVars, evVars, goalVars, runVars, harnessVars>>

\* the candidates are exhausted: release the domino and return False
DfsExhausted ==
    /\ phase = "csp" /\ pc = "loop"
    /\ Top.i > Len(remaining_domains[Top.d])
    /\ used' = [used EXCEPT ![Top.d] = FALSE]
    /\ stack' = Pop
    /\ pc' = "ret_false"
    /\ UNCHANGED <<board, phase, grid, remaining_domains, unused_values,
                   solution, csp_result, astarVars, saVars, evVars, goalVars, runVars, harnessVars>>

\* the recursive call returned True: return True without undoing
DfsPropagate ==
    /\ phase = "csp" /\ pc = "ret_true" /\ stack # <<>>
    /\ stack' = Pop
    /\ UNCHANGED <<board, phase, grid, used, remaining_domains, unused_values,
                   pc, solution, csp_result, astarVars, saVars, evVars, goalVars, runVars, harnessVars>>

\* solved = dfs() has returned: solve_pips returns (csp.py:295-301)
CspReturn ==
    /\ phase = "csp" /\ pc \in {"ret_true", "ret_false"} /\ stack = <<>>
    /\ csp_result' = IF pc = "ret_true" THEN ReturnGrid(solution) ELSE ReturnNone
    /\ pc' = "done"
    /\ phase' = "astar"
    /\ UNCHANGED <<board, grid, used, remaining_domains, unused_values, stack,
                   solution, astarVars, saVars, evVars, goalVars, runVars, harnessVars>>

\* mutant: the grid is shared between calls and keeps what the previous call
\* left in it
CallLocals_SharedGrid(b) ==
    [grid |-> grid,
     used |-> [i \in DOMAIN b.dominoes |-> FALSE],
     remaining_domains |-> generate_all_domino_placements(b),
     unused_values |-> InitialUnused(b.dominoes),
     solution |-> EmptyGrid]

\* the variables a call of solve_pips starts with (csp.py:106-142): all of
\* them locals of the call, built from the board alone
CallLocals(b) ==
    [grid |-> EmptyGrid,
     used |-> [i \in DOMAIN b.dominoes |-> FALSE],
     remaining_domains |-> generate_all_domino_placements(b),
     unused_values |-> InitialUnused(b.dominoes),
     solution |-> EmptyGrid]

\* solve_pips is called a second time on the same board
CspCallAgain ==
    /\ phase = "astar" /\ astar_result.kind = "idle" /\ pc = "done"
    /\ run = 1
    /\ run' = 2
    /\ first_result' = csp_result
    /\ phase' = "csp"
    /\ LET loc == CallLocals(board)
       IN  /\ grid' = loc.grid
           /\ used' = loc.used
           /\ remaining_domains' = loc.remaining_domains
           /\ unused_values' = loc.unused_values
           /\ solution' = loc.solution
    /\ stack' = <<>>
    /\ pc' = "enter"
    /\ csp_result' = Pending
    /\ UNCHANGED <<board, astarVars, saVars, evVars, goalVars, harnessVars>>

(***************************************************************************)
(* A* solver (src/a_star_search.py).                                       *)
(***************************************************************************)
RECURSIVE Pow2(_)
Pow2(n) == IF n = 0 THEN 1 ELSE 2 * Pow2(n - 1)

\* used_mask & (1 << idx), idx counted from 0
MaskHas(mask, idx) == (mask \div Pow2(idx)) % 2 = 1

\* used_mask | (1 << idx)
MaskSet(mask, idx) == IF MaskHas(mask, idx) THEN mask ELSE mask + Pow2(idx)

\* a_star_search.placement_is_valid: "False", "True", or "TypeError" where it
\* calls region_ok_partial(region, values) without the unused_values argument
\* that csp.region_ok_partial requires
astar_placement_is_valid(b, g, p) ==
    LET c1 == p[1]
        c2 == p[2]
        reg1 == RegionOf(b, c1)
        reg2 == RegionOf(b, c2)
    IN  IF c1 \notin ValidCells(b) \/ c2 \notin ValidCells(b) THEN "False"
        ELSE IF c1 \in DOMAIN g \/ c2 \in DOMAIN g THEN "False"
        ELSE IF reg1 # 0 THEN "TypeError"
        ELSE IF reg2 # 0 /\ reg2 # reg1 THEN "TypeError"
        ELSE "True"

\* the loop of select_domino over one domino's placements
RECURSIVE ValidDomain(_, _, _)
ValidDomain(b, g, ps) ==
    IF ps = <<>> THEN [raised |-> FALSE, domain |-> <<>>]
    ELSE LET p == Head(ps)
             rest == ValidDomain(b, g, Tail(ps))
         IN  IF p[1] \in DOMAIN g \/ p[2] \in DOMAIN g THEN rest
             ELSE LET ok == astar_placement_is_valid(b, g, p)
                  IN  IF ok = "TypeError" THEN [raised |-> TRUE, domain |-> <<>>]
                      ELSE IF ok = "True"
                           THEN [rest EXCEPT !.domain = <<p>> \o @]
                      ELSE rest

\* a_star_search.select_domino: the first unplaced domino, 0-based, or -1
astar_select_domino(b, mask, g) ==
    LET n == Len(b.dominoes)
        free == {i \in 0..(n - 1) : ~MaskHas(mask, i)}
    IN  IF free = {} THEN [idx |-> -1, raised |-> FALSE, domain |-> <<>>]
        ELSE LET idx == CHOOSE i \in free : \A j \in free : i <= j
                 vd == ValidDomain(b, g,
                           generate_domino_placements(b, b.dominoes[idx + 1]))
             IN  [idx |-> idx, raised |-> vd.raised, domain |-> vd.domain]

\* mutant: the heuristic counts cells, not dominoes
heuristic_Cells(unfilled_cells) == unfilled_cells

heuristic(unfilled_cells) == (unfilled_cells + 1) \div 2

is_goal(g, b) ==
    IF Cardinality(DOMAIN g) # Cardinality(ValidCells(b)) THEN FALSE
    ELSE \A r \in DOMAIN b.regions :
            region_ok_full(b.regions[r],
                [k \in DOMAIN b.regions[r].cells |-> g[b.regions[r].cells[k]]])

\* heap order of the entries: (f, g, counter) decides, counters being unique
EntryLess(x, y) ==
    \/ x.f < y.f
    \/ x.f = y.f /\ x.g < y.g
    \/ x.f = y.f /\ x.g = y.g /\ x.counter < y.counter

HeapMin(fr) == CHOOSE x \in fr : \A y \in fr \ {x} : EntryLess(x, y)

\* the successors pushed for the placements of domain (a_star_search.py:135-151)
RECURSIVE Successors(_, _, _, _, _)
Successors(b, e, idx, domain, cnt) ==
    IF domain = <<>> THEN {}
    ELSE LET p == Head(domain)
             new_grid == Put(Put(e.grid, p[1], p[3][1]), p[2], p[3][2])
             unfilled == Cardinality(ValidCells(b)) - Cardinality(DOMAIN new_grid)
             new_g == e.g + 1
         IN  {[f |-> new_g + heuristic(unfilled), g |-> new_g, counter |-> cnt + 1,
               used_mask |-> MaskSet(e.used_mask, idx), grid |-> new_grid,
               path |-> Append(e.path, <<idx, p>>)]}
             \cup Successors(b, e, idx, Tail(domain), cnt + 1)

\* the start of solve_pips: push the start state (a_star_search.py:99-115)
AStarStart ==
    /\ phase = "astar" /\ astar_result.kind = "idle"
    /\ frontier' = {[f |-> heuristic(Cardinality(ValidCells(board))), g |-> 0,
                     counter |-> 0, used_mask |-> 0, grid |-> EmptyGrid,
                     path |-> <<>>]}
    /\ counter' = 0
    /\ visited' = {}
    /\ astar_result' = Pending
    /\ UNCHANGED <<board, phase, cspVars, saVars, evVars, goalVars, runVars, harnessVars>>

\* one iteration of the while loop (a_star_search.py:117-151)
AStarStep ==
    /\ phase = "astar" /\ astar_result.kind = "pending"
    /\ frontier # {}
    /\ LET e == HeapMin(frontier)
           key == <<e.used_mask, e.grid>>
           sel == astar_select_domino(board, e.used_mask, e.grid)
       IN  IF key \in visited
           THEN /\ frontier' = frontier \ {e}
                /\ UNCHANGED <<counter, visited, astar_result, phase>>
           ELSE /\ visited' = visited \cup {key}
                /\ IF is_goal(e.grid, board)
                   THEN /\ astar_result' = ReturnGrid(e.grid)
                        /\ phase' = "sa"
                        /\ frontier' = frontier \ {e}
                        /\ counter' = counter
                   ELSE IF sel.raised
                   THEN /\ astar_result' = Raises
                        /\ phase' = "sa"
                        /\ frontier' = frontier \ {e}
                        /\ counter' = counter
                   ELSE IF sel.idx = -1 \/ sel.domain = <<>>
                   THEN /\ frontier' = frontier \ {e}
                        /\ UNCHANGED <<counter, astar_result, phase>>
                   ELSE /\ frontier' = (frontier \ {e}) \cup
                               Successors(board, e, sel.idx, sel.domain, counter)
                        /\ counter' = counter + Len(sel.domain)
                        /\ UNCHANGED <<astar_result, phase>>
    /\ UNCHANGED <<board, cspVars, saVars, evVars, goalVars, runVars, harnessVars>>

\* the frontier is exhausted: return None (a_star_search.py:153)
AStarExhausted ==
    /\ phase = "astar" /\ astar_result.kind = "pending"
    /\ frontier = {}
    /\ astar_result' = ReturnNone
    /\ phase' = "sa"
    /\ UNCHANGED <<board, frontier, counter, visited, cspVars, saVars, evVars, goalVars, runVars, harnessVars>>

(***************************************************************************)
(* Simulated annealing solver (src/simulated_annealing.py).                *)
(***************************************************************************)
\* sum(1 for v in vals if not (v < target)), and the same for >
RECURSIVE CountNotLess(_, _)
CountNotLess(vals, target) ==
    IF vals = <<>> THEN 0
    ELSE (IF Head(vals) < target THEN 0 ELSE 1) + CountNotLess(Tail(vals), target)

RECURSIVE CountNotGreater(_, _)
CountNotGreater(vals, target) ==
    IF vals = <<>> THEN 0
    ELSE (IF Head(vals) > target THEN 0 ELSE 1) + CountNotGreater(Tail(vals), target)

Abs(x) == IF x < 0 THEN -x ELSE x

region_energy(region, g) ==
    LET vals == ValsIn(region.cells, g)
    IN  IF vals = <<>> THEN 0
        ELSE IF region.type = "empty" THEN 0
        ELSE IF region.type = "equals"
             THEN (IF Cardinality(ToSet(vals)) = 1 THEN 0 ELSE 1)
        ELSE IF region.type = "notequals"
             THEN (IF Len(vals) = Cardinality(ToSet(vals)) THEN 0 ELSE 1)
        ELSE IF region.type = "less" THEN CountNotLess(vals, region.target)
        ELSE IF region.type = "greater" THEN CountNotGreater(vals, region.target)
        ELSE IF region.type = "sum" THEN Abs(SeqSum(vals) - region.target)
        ELSE 0

\* state_to_grid, also the grid compute_energy builds
RECURSIVE PlaceAll(_, _)
PlaceAll(st, g) ==
    IF st = <<>> THEN g
    ELSE PlaceAll(Tail(st), Put(Put(g, Head(st)[1], Head(st)[3][1]),
                                Head(st)[2], Head(st)[3][2]))

state_to_grid(st) == PlaceAll(st, EmptyGrid)

OverlapWeight == 10000

\* the overlap_penalty loop of compute_energy
RECURSIVE OverlapPenalty(_, _)
OverlapPenalty(st, g) ==
    IF st = <<>> THEN 0
    ELSE (IF Head(st)[1] \in DOMAIN g \/ Head(st)[2] \in DOMAIN g
          THEN OverlapWeight ELSE 0)
         + OverlapPenalty(Tail(st), Put(Put(g, Head(st)[1], Head(st)[3][1]),
                                        Head(st)[2], Head(st)[3][2]))

RECURSIVE RegionPenalty(_, _)
RegionPenalty(regions, g) ==
    IF regions = <<>> THEN 0
    ELSE region_energy(Head(regions), g) + RegionPenalty(Tail(regions), g)

compute_energy(st, b) ==
    OverlapPenalty(st, EmptyGrid) * 10 + RegionPenalty(b.regions, state_to_grid(st))

\* placement_options of solve_pips
PlacementOptions(b) ==
    [i \in DOMAIN b.dominoes |-> generate_domino_placements(b, b.dominoes[i])]

\* the states random_initial_state can return
InitialStates(opts) ==
    {st \in [DOMAIN opts -> UNION {ToSet(opts[i]) : i \in DOMAIN opts}] :
        \A i \in DOMAIN opts : st[i] \in ToSet(opts[i])}

\* the states random_neighbor can return: a swap of two entries, or one
\* entry reassigned from that domino's own options
Neighbors(st, opts) ==
    {[st EXCEPT ![i] = st[j], ![j] = st[i]] : i \in DOMAIN st, j \in DOMAIN st}
    \cup UNION {{[st EXCEPT ![i] = opts[i][k]] : k \in DOMAIN opts[i]} :
                   i \in DOMAIN st}

\* mutant: float("inf") is compared like a number of the model
EnergyLess_Plain(e, best) == e < best

EnergyLess(e, best) == best = Inf \/ e < best

\* mutant: an accepted neighbour replaces the state but not the energy
Metropolis_StaleEnergy(st, e, neighbor, e2, accept) ==
    IF accept THEN <<neighbor, e>> ELSE <<st, e>>

\* the acceptance step: the (state, energy) pair after it (lines 150-154)
Metropolis(st, e, neighbor, e2, accept) ==
    IF accept THEN <<neighbor, e2>> ELSE <<st, e>>

SADone(res) ==
    /\ sa_result' = res
    /\ sa_pc' = "done"
    /\ phase' = "end"

\* a restart begins: random_initial_state and its energy (lines 132-137);
\* random.choice raises IndexError on an empty option list
SABeginRestart ==
    /\ phase = "sa" /\ sa_pc = "restart" /\ restart < MaxRestarts
    /\ LET opts == PlacementOptions(board)
       IN  IF \E i \in DOMAIN opts : opts[i] = <<>>
           THEN /\ SADone(Raises)
                /\ UNCHANGED <<state, energy, it, sa_returned>>
           ELSE /\ \E st \in InitialStates(opts) :
                      /\ state' = st
                      /\ energy' = compute_energy(st, board)
                /\ it' = 0
                /\ sa_pc' = "iter"
                /\ UNCHANGED <<phase, sa_result, sa_returned>>
    /\ UNCHANGED <<board, restart, best_global, best_global_energy,
                   cspVars, astarVars, evVars, goalVars, runVars, harnessVars>>

\* "if energy == 0: return state_to_grid(state)" (lines 142-143)
SAReturnSolved ==
    /\ phase = "sa" /\ sa_pc = "iter" /\ it < MaxIters /\ energy = 0
    /\ sa_returned' = state
    /\ SADone(ReturnGrid(state_to_grid(state)))
    /\ UNCHANGED <<board, restart, it, state, energy, best_global,
                   best_global_energy, cspVars, astarVars, evVars, goalVars, runVars, harnessVars>>

\* one Metropolis iteration (lines 146-156): a worse or equal neighbour is
\* accepted when random.random() < exp((energy - e2) / T), which is certain
\* for e2 = energy and a matter of chance for e2 > energy
SAIterate ==
    /\ phase = "sa" /\ sa_pc = "iter" /\ it < MaxIters /\ energy # 0
    /\ \E neighbor \in Neighbors(state, PlacementOptions(board)), accept \in BOOLEAN :
          LET e2 == compute_energy(neighbor, board)
          IN  /\ e2 <= energy => accept
              /\ state' = Metropolis(state, energy, neighbor, e2, accept)[1]
              /\ energy' = Metropolis(state, energy, neighbor, e2, accept)[2]
    /\ it' = it + 1
    /\ UNCHANGED <<board, phase, sa_pc, restart, best_global, best_global_energy,
                   sa_result, sa_returned, cspVars, astarVars, evVars, goalVars, runVars, harnessVars>>

\* the iteration budget is spent: track the best state (lines 159-161)
SAEndRestart ==
    /\ phase = "sa" /\ sa_pc = "iter" /\ it = MaxIters
    /\ IF EnergyLess(energy, best_global_energy)
       THEN best_global_energy' = energy /\ best_global' = state
       ELSE UNCHANGED <<best_global_energy, best_global>>
    /\ restart' = restart + 1
    /\ sa_pc' = "restart"
    /\ UNCHANGED <<board, phase, it, state, energy, sa_result, sa_returned,
                   cspVars, astarVars, evVars, goalVars, runVars, harnessVars>>

\* every restart is done: return the best grid only if solved (line 164)
SAFinish ==
    /\ phase = "sa" /\ sa_pc = "restart" /\ restart = MaxRestarts
    /\ IF best_global_energy = 0
       THEN /\ sa_returned' = best_global
            /\ SADone(ReturnGrid(state_to_grid(best_global)))
       ELSE /\ sa_returned' = sa_returned
            /\ SADone(ReturnNone)
    /\ UNCHANGED <<board, restart, it, state, energy, best_global,
                   best_global_energy, cspVars, astarVars, evVars, goalVars, runVars, harnessVars>>

(***************************************************************************)
(* The two goal tests applied to a drawn search state.                     *)
(***************************************************************************)
\* used[i] of the backtracking solver for the state's used_mask
UsedOf(b, mask) == [i \in DOMAIN b.dominoes |-> MaskHas(mask, i - 1)]

\* the success condition of dfs (csp.py:236-245) for a state (used, grid)
DfsAccepts(b, u, g) == AllUsed(u) /\ DfsGoalOk(b, g)

GoalTest ==
    /\ phase = "goal"
    /\ ~goal_done
    /\ goal_done' = TRUE
    /\ goal_astar' = is_goal(goal_grid, board)
    /\ goal_csp' = DfsAccepts(board, UsedOf(board, goal_mask), goal_grid)
    /\ UNCHANGED <<board, phase, goal_mask, goal_grid,
                   cspVars, astarVars, saVars, evVars, runVars, harnessVars>>

(***************************************************************************)
(* Constraint evaluator applied to drawn inputs.                           *)
(***************************************************************************)
Evaluate ==
    /\ phase = "eval"
    /\ ~ev_done
    /\ ev_done' = TRUE
    /\ ev_partial' = region_ok_partial(ev_region, ev_values, ev_pool)
    /\ ev_full' = region_ok_full(ev_region, ev_values)
    /\ UNCHANGED <<board, phase, ev_region, ev_values, ev_pool,
                   cspVars, astarVars, saVars, goalVars, runVars, harnessVars>>

(***************************************************************************)
(* The boards the solvers are run on.                                      *)
(***************************************************************************)
Constraints ==
    {<<t, 0>> : t \in {"empty", "equals", "notequals"}}
    \cup {<<t, k>> : t \in {"sum", "less", "greater"}, k \in 0..MaxTarget}

FewConstraints ==
    {<<"empty", 0>>, <<"equals", 0>>, <<"sum", MaxTarget>>}

Dominoes == {<<a, bb>> \in PipValues \X PipValues : a <= bb}

DominoSeqs(n) == [1..n -> Dominoes]

\* the region layouts: a 1x2 strip in one or two regions, a 2x2 square in
\* two layouts, and an S-shaped board whose bounding box has two holes
ShapeS == << <<<<0, 0>>>> >>
ShapeA == << <<<<0, 0>>, <<0, 1>>>> >>
ShapeB == << <<<<0, 0>>>>, <<<<0, 1>>>> >>
ShapeC == << <<<<0, 0>>, <<0, 1>>>>, <<<<1, 0>>, <<1, 1>>>> >>
ShapeD == << <<<<0, 0>>, <<1, 0>>, <<1, 1>>>>, <<<<0, 1>>>> >>
ShapeE == << <<<<0, 0>>, <<0, 1>>>>, <<<<1, 1>>, <<1, 2>>>> >>
ShapeF == << <<<<0, 0>>, <<0, 1>>, <<0, 2>>>>, <<<<1, 0>>, <<1, 1>>, <<1, 2>>>> >>

\* three dominoes, the last one fixed
TripleSeqs == {<<d1, d2, <<0, 1>>>> : d1 \in Dominoes, d2 \in Dominoes}

MkBoard(shape, cons, doms) ==
    [dominoes |-> doms,
     regions |-> [i \in DOMAIN shape |->
                    [cells |-> shape[i], type |-> cons[i][1], target |-> cons[i][2]]]]

OneRegionBoards(shape, doms) ==
    {MkBoard(shape, <<k>>, d) : k \in Constraints, d \in doms}

TwoRegionBoards(shape, doms) ==
    {MkBoard(shape, <<k1, k2>>, d) :
        k1 \in Constraints, k2 \in FewConstraints, d \in doms}

Boards ==
    OneRegionBoards(ShapeS, DominoSeqs(1))
    \cup OneRegionBoards(ShapeA, DominoSeqs(0) \cup DominoSeqs(1) \cup DominoSeqs(2))
    \cup TwoRegionBoards(ShapeB, DominoSeqs(1))
    \cup TwoRegionBoards(ShapeC, DominoSeqs(2))
    \cup TwoRegionBoards(ShapeD, DominoSeqs(2))
    \cup TwoRegionBoards(ShapeE, DominoSeqs(2))
    \cup TwoRegionBoards(ShapeF, TripleSeqs)

\* the 1x2 board with one sum region of target 5 and the domino (2, 3)
ScenarioBoard == MkBoard(ShapeA, <<<<"sum", 5>>>>, <<<<2, 3>>>>)

SmallBoards ==
    {ScenarioBoard}
    \cup OneRegionBoards(ShapeS, DominoSeqs(1))
    \cup OneRegionBoards(ShapeA, DominoSeqs(1))
    \cup TwoRegionBoards(ShapeB, DominoSeqs(1))
    \cup {MkBoard(ShapeC, <<k1, <<"equals", 0>>>>, <<<<0, 0>>, <<1, 1>>>>) :
             k1 \in FewConstraints}

(***************************************************************************)
(* The benchmarking harness (src/eval_time.py): evaluate_solvers times the *)
(* backtracking solver and then the annealing solver on one board, each in *)
(* a worker process that timed_solve supervises.  Time is counted in       *)
(* ticks; the worker takes any number of ticks.                            *)
(***************************************************************************)
\* timed_solve(solver_fn, puzzle, timeout=3)
Timeout == 3

\* what solver_fn(puzzle) can do: return a grid, return None, or raise
SolverOutcomes == {"grid", "none", "raised"}

HarnessIdle ==
    /\ harness_pc = "call"
    /\ solver = "backtracking"
    /\ solver_fn = "none"
    /\ child = "unstarted"
    /\ conn = <<>>
    /\ elapsed = 0
    /\ ret = [solution |-> "None", time |-> 0]
    /\ results = [s \in {"backtracking", "annealing"} |->
                     [times |-> <<>>, solved |-> 0]]
    /\ failed = [s \in {"backtracking", "annealing"} |-> <<>>]
    /\ runs = <<>>

solverVars == <<board, phase, cspVars, astarVars, saVars, evVars, goalVars, runVars>>

\* timed_solve up to p.start() (lines 27-31)
TimedSolveStart ==
    /\ phase = "harness" /\ harness_pc = "call"
    /\ \E o \in SolverOutcomes : solver_fn' = o
    /\ child' = "running"
    /\ conn' = <<>>
    /\ elapsed' = 0
    /\ harness_pc' = "poll"
    /\ UNCHANGED <<solver, ret, results, failed, runs, solverVars>>

\* time passes while the parent waits in poll or in join
Tick ==
    /\ phase = "harness" /\ harness_pc \in {"poll", "join"}
    /\ elapsed <= Timeout
    /\ elapsed' = elapsed + 1
    /\ UNCHANGED <<harness_pc, solver, solver_fn, child, conn, ret, results,
                   failed, runs, solverVars>>

\* _solver_worker (lines 15-23): the solver's result is sent, None is sent
\* when the solver raised, and the connection is closed
WorkerSend ==
    /\ phase = "harness" /\ child = "running"
    /\ conn' = <<IF solver_fn = "grid" THEN "grid" ELSE "None">>
    /\ child' = "exited"
    /\ UNCHANGED <<harness_pc, solver, solver_fn, elapsed, ret, results, failed,
                   runs, solverVars>>

\* parent_conn.poll(timeout) is true: recv (lines 33-34)
PollTrue ==
    /\ phase = "harness" /\ harness_pc = "poll"
    /\ conn # <<>>
    /\ ret' = [solution |-> Head(conn), time |-> 0]
    /\ conn' = Tail(conn)
    /\ harness_pc' = "join"
    /\ UNCHANGED <<solver, solver_fn, child, elapsed, results, failed, runs,
                   solverVars>>

\* p.join(), duration = time.perf_counter() - start, return (lines 35-37)
JoinReturn ==
    /\ phase = "harness" /\ harness_pc = "join"
    /\ child' = "joined"
    /\ ret' = [ret EXCEPT !.time = elapsed]
    /\ runs' = Append(runs, [solver |-> solver, timed_out |-> FALSE,
                             solver_fn |-> solver_fn])
    /\ harness_pc' = "returned"
    /\ UNCHANGED <<solver, solver_fn, conn, elapsed, results, failed, solverVars>>

\* poll(timeout) is false: terminate, join, return None, timeout (lines 45-48)
PollFalse ==
    /\ phase = "harness" /\ harness_pc = "poll"
    /\ conn = <<>>
    /\ elapsed >= Timeout
    /\ child' = "terminated"
    /\ ret' = [solution |-> "None", time |-> Timeout]
    /\ runs' = Append(runs, [solver |-> solver, timed_out |-> TRUE,
                             solver_fn |-> solver_fn])
    /\ harness_pc' = "returned"
    /\ UNCHANGED <<solver, solver_fn, conn, elapsed, results, failed, solverVars>>

\* what evaluate_solvers appends to the failed list of the solver: the board
\* when the solution is None
FailedEntry(sol) ==
    IF sol # "None" THEN <<>> ELSE <<"board">>

\* the bookkeeping of evaluate_solvers after a call (lines 94-101, 104-111)
Record ==
    /\ phase = "harness" /\ harness_pc = "returned"
    /\ results' = [results EXCEPT
          ![solver].times = Append(@, ret.time),
          ![solver].solved = IF ret.solution # "None" THEN @ + 1 ELSE @]
    /\ failed' = [failed EXCEPT
          ![solver] = @ \o FailedEntry(ret.solution)]
    /\ IF solver = "backtracking"
       THEN solver' = "annealing" /\ harness_pc' = "call"
       ELSE solver' = solver /\ harness_pc' = "end"
    /\ UNCHANGED <<solver_fn, child, conn, elapsed, ret, runs, solverVars>>

(***************************************************************************)
(* Initial states and specifications.                                      *)
(***************************************************************************)
SolversInit(b, ph) ==
    /\ board = b
    /\ phase = ph
    /\ grid = EmptyGrid
    /\ used = [i \in DOMAIN b.dominoes |-> FALSE]
    /\ remaining_domains = generate_all_domino_placements(b)
    /\ unused_values = InitialUnused(b.dominoes)
    /\ stack = <<>>
    /\ pc = "enter"
    /\ solution = EmptyGrid
    /\ csp_result = Pending
    /\ frontier = {}
    /\ counter = 0
    /\ visited = {}
    /\ astar_result = Idle
    /\ sa_pc = "restart"
    /\ restart = 0
    /\ it = 0
    /\ state = <<>>
    /\ energy = 0
    /\ best_global = <<>>
    /\ best_global_energy = Inf
    /\ sa_result = Pending
    /\ sa_returned = <<>>
    /\ run = 1
    /\ first_result = Idle
    /\ HarnessIdle

GoalIdle ==
    /\ goal_mask = 0
    /\ goal_grid = EmptyGrid
    /\ goal_done = FALSE
    /\ goal_astar = FALSE
    /\ goal_csp = FALSE

EvalIdle ==
    /\ ev_region = [cells |-> <<>>, type |-> "empty", target |-> 0]
    /\ ev_values = <<>>
    /\ ev_pool = [v \in PipValues |-> 0]
    /\ ev_done = FALSE
    /\ ev_partial = FALSE
    /\ ev_full = FALSE

\* the inputs the evaluator is applied to: a region of one to three cells,
\* values for some of its cells, and a pool of at most MaxPool values
EvalCells == {<<<<0, 0>>>>, <<<<0, 0>>, <<0, 1>>>>, <<<<0, 0>>, <<0, 1>>, <<0, 2>>>>}

EvalValues(n) == UNION {[1..k -> PipValues] : k \in 0..n}

EvalPools ==
    {pl \in [PipValues -> 0..MaxPool] : Len(SortedUnused(pl)) <= MaxPool}

InitEval ==
    /\ SolversInit(MkBoard(ShapeS, <<<<"empty", 0>>>>, <<>>), "eval")
    /\ \E cells \in EvalCells, k \in Constraints :
          ev_region = [cells |-> cells, type |-> k[1], target |-> k[2]]
    /\ ev_values \in EvalValues(Len(ev_region.cells))
    /\ ev_pool \in EvalPools
    /\ ev_done = FALSE
    /\ ev_partial = FALSE
    /\ ev_full = FALSE
    /\ GoalIdle

NextEval == Evaluate

SpecEval == InitEval /\ [][NextEval]_vars

\* the backtracking solver, then the A* solver, on the same board
Init ==
    /\ \E b \in Boards : SolversInit(b, "csp")
    /\ EvalIdle
    /\ GoalIdle

Next ==
    \/ DfsGoal \/ DfsSelect \/ DfsSkip \/ DfsPlace \/ DfsUndo
    \/ DfsExhausted \/ DfsPropagate \/ CspReturn
    \/ AStarStart \/ AStarStep \/ AStarExhausted

Spec == Init /\ [][Next]_vars

\* the evaluator on drawn inputs, and the solvers that call it
InitSound == Init \/ InitEval

NextSound == Next \/ NextEval

SpecSound == InitSound /\ [][NextSound]_vars

\* the three solvers in turn on the same board
InitAll ==
    /\ \E b \in SmallBoards : SolversInit(b, "csp")
    /\ EvalIdle
    /\ GoalIdle

NextAll ==
    \/ Next
    \/ SABeginRestart \/ SAReturnSolved \/ SAIterate \/ SAEndRestart \/ SAFinish

SpecAll == InitAll /\ [][NextAll]_vars

\* the backtracking solver called twice on the same board
TwiceBoards ==
    OneRegionBoards(ShapeA, DominoSeqs(0) \cup DominoSeqs(1) \cup DominoSeqs(2))
    \cup TwoRegionBoards(ShapeC, DominoSeqs(2))
    \cup TwoRegionBoards(ShapeE, DominoSeqs(2))

InitTwice ==
    /\ \E b \in TwiceBoards : SolversInit(b, "csp")
    /\ EvalIdle
    /\ GoalIdle

NextTwice ==
    \/ DfsGoal \/ DfsSelect \/ DfsSkip \/ DfsPlace \/ DfsUndo
    \/ DfsExhausted \/ DfsPropagate \/ CspReturn
    \/ CspCallAgain

SpecTwice == InitTwice /\ [][NextTwice]_vars

\* the search states (used_mask, grid) of the A* solver: dominoes placed in
\* index order on free valid cells
RECURSIVE SearchStates(_, _, _, _)
SearchStates(b, idx, mask, g) ==
    {[mask |-> mask, grid |-> g]}
    \cup (IF idx >= Len(b.dominoes) THEN {}
         ELSE UNION {SearchStates(b, idx + 1, MaskSet(mask, idx),
                                  Put(Put(g, q[1], q[3][1]), q[2], q[3][2])) :
                       q \in {p \in ToSet(generate_domino_placements(b, b.dominoes[idx + 1])) :
                                 /\ p[1] \in ValidCells(b) \ DOMAIN g
                                 /\ p[2] \in ValidCells(b) \ DOMAIN g}})

GoalBoards ==
    OneRegionBoards(ShapeA, DominoSeqs(1) \cup DominoSeqs(2))
    \cup {MkBoard(ShapeC, <<k1, k2>>, d) :
             k1 \in FewConstraints, k2 \in FewConstraints, d \in DominoSeqs(2)}

InitGoal ==
    /\ \E b \in GoalBoards :
          /\ SolversInit(b, "goal")
          /\ \E st \in SearchStates(b, 0, 0, EmptyGrid) :
                /\ goal_mask = st.mask
                /\ goal_grid = st.grid
    /\ goal_done = FALSE
    /\ goal_astar = FALSE
    /\ goal_csp = FALSE
    /\ EvalIdle

NextGoal == GoalTest

SpecGoal == InitGoal /\ [][NextGoal]_vars

(***************************************************************************)
(* Reference notions the claims are stated with.                           *)
(***************************************************************************)
Adjacent(c1, c2) ==
    \/ c1[1] = c2[1] /\ c2[2] = c1[2] + 1
    \/ c1[2] = c2[2] /\ c2[1] = c1[1] + 1

\* one domino on a pair of adjacent valid cells, in either orientation
RefPlacements(b, dom) ==
    {<<c1, c2, vv>> \in ValidCells(b) \X ValidCells(b)
                        \X {<<dom[1], dom[2]>>, <<dom[2], dom[1]>>} :
        Adjacent(c1, c2)}

RegionsFullOk(b, g) ==
    \A r \in DOMAIN b.regions :
        region_ok_full(b.regions[r],
            [k \in DOMAIN b.regions[r].cells |-> g[b.regions[r].cells[k]]])

\* the grids that extend g by placing dominoes i, i+1, ... on free cells, cover
\* every valid cell and satisfy every region
RECURSIVE SolutionsFrom(_, _, _)
SolutionsFrom(b, i, g) ==
    IF i > Len(b.dominoes)
    THEN IF DOMAIN g = ValidCells(b) /\ RegionsFullOk(b, g) THEN {g} ELSE {}
    ELSE UNION {SolutionsFrom(b, i + 1, Put(Put(g, p[1], p[3][1]), p[2], p[3][2])) :
                  p \in {q \in RefPlacements(b, b.dominoes[i]) :
                            q[1] \notin DOMAIN g /\ q[2] \notin DOMAIN g}}

Solutions(b) == SolutionsFrom(b, 1, EmptyGrid)

Solvable(b) == Solutions(b) # {}

\* the placements committed by the active dfs frames
Committed == [k \in DOMAIN stack |-> remaining_domains[stack[k].d][stack[k].i]]

(***************************************************************************)
(* Claims.                                                                 *)
(***************************************************************************)
\* C1: a grid returned by csp.solve_pips has exactly the valid cells as keys,
\* is a placement of every domino, each once, on two distinct cells, and
\* satisfies region_ok_full in every region.  At the moment dfs accepts, the
\* active frames hold every domino once, on pairwise disjoint cell pairs
\* whose values are the grid.
C1_CspGridValid ==
    /\ csp_result.kind = "grid" =>
          /\ DOMAIN csp_result.grid = ValidCells(board)
          /\ RegionsFullOk(board, csp_result.grid)
          /\ csp_result.grid \in Solutions(board)
    /\ (pc = "ret_true" /\ Len(stack) = Len(board.dominoes)) =>
          /\ {stack[k].d : k \in DOMAIN stack} = DOMAIN board.dominoes
          /\ \A k \in DOMAIN stack : Committed[k][1] # Committed[k][2]
          /\ \A k, m \in DOMAIN stack :
                k # m => {Committed[k][1], Committed[k][2]}
                         \cap {Committed[m][1], Committed[m][2]} = {}
          /\ solution = state_to_grid(Committed)
          /\ Cardinality(DOMAIN solution) = 2 * Len(board.dominoes)

\* C1 witness: a grid was returned for a board with two regions and at
\* least two dominoes
C1_Witness ==
    /\ csp_result.kind = "grid"
    /\ Len(board.dominoes) >= 2
    /\ Len(board.regions) = 2

\* C2: csp.solve_pips returns a grid exactly when the board has a solution
C2_CspExact ==
    csp_result.kind # "pending" =>
        /\ csp_result.kind \in {"grid", "none"}
        /\ csp_result.kind = "grid" <=> Solvable(board)

\* C2 witness: dfs accepts a solution on a board with holes after at least
\* one candidate of some frame was passed over
C2_Witness ==
    /\ pc = "ret_true"
    /\ Len(stack) = Len(board.dominoes)
    /\ \E k \in DOMAIN stack : stack[k].i > 1
    /\ Cardinality(ValidCells(board)) < Rows(board) * Cols(board)
    /\ Solvable(board)


\* C3: on a board without a solution every solver ends by returning None
C3_UnsolvableGivesNone ==
    ~Solvable(board) =>
        /\ csp_result.kind \in {"pending", "none"}
        /\ astar_result.kind \in {"idle", "pending", "none"}
        /\ sa_result.kind \in {"pending", "none"}

\* the A* solver never returns a grid: it ends with None or with the
\* TypeError of its call of region_ok_partial
AStarReturnsNoGrid == astar_result.kind # "grid"

\* C5: the backtracking solver returns a grid iff the A* solver does
C5_SolversAgree ==
    (csp_result.kind # "pending" /\ astar_result.kind \notin {"idle", "pending"}) =>
        (csp_result.kind = "grid" <=> astar_result.kind = "grid")

\* C6: a grid returned by the annealing solver has exactly the valid cells
\* as keys and satisfies region_ok_full in every region
C6_SAGridValid ==
    sa_result.kind = "grid" =>
        /\ DOMAIN sa_result.grid = ValidCells(board)
        /\ RegionsFullOk(board, sa_result.grid)

\* C7: the annealing solver returns a grid only for a state of energy zero:
\* the tracked energies are those compute_energy gives, the returned grid is
\* that of a state whose energy is 0, and None is returned otherwise
C7_SAZeroEnergy ==
    /\ sa_pc = "iter" => energy = compute_energy(state, board)
    /\ best_global_energy # Inf =>
          best_global_energy = compute_energy(best_global, board)
    /\ sa_result.kind = "grid" =>
          /\ sa_result.grid = state_to_grid(sa_returned)
          /\ compute_energy(sa_returned, board) = 0
          /\ \/ restart < MaxRestarts /\ sa_returned = state /\ energy = 0
             \/ restart = MaxRestarts /\ sa_returned = best_global
                /\ best_global_energy = 0
    /\ sa_result.kind = "none" =>
          /\ restart = MaxRestarts
          /\ best_global_energy # 0

\* C7 witness: the grid is returned by the last line of solve_pips, after
\* the restarts, for a state with at least one domino
C7_Witness ==
    /\ sa_result.kind = "grid"
    /\ restart = MaxRestarts
    /\ Len(sa_returned) >= 1

\* the ways to fill the remaining cells of a region from the pool, each
\* value used at most as often as the pool holds it
Completions(region, values, pool) ==
    {ext \in [1..(Len(region.cells) - Len(values)) -> PipValues] :
        \A v \in PipValues :
            Cardinality({i \in DOMAIN ext : ext[i] = v}) <= pool[v]}

Completable(region, values, pool) ==
    \E ext \in Completions(region, values, pool) :
        region_ok_full(region, values \o ext)

\* C8 as stated: whatever region_ok_partial accepts can be completed from
\* the pool so that region_ok_full holds
C8_PartialImpliesCompletable ==
    (ev_done /\ ev_partial) => Completable(ev_region, ev_values, ev_pool)

\* C8 amended: this holds for notequals, less and greater regions, for
\* equals regions with at least one collected value, and for empty regions
\* when the pool holds at least as many values as cells remain
C8_Amended ==
    (/\ ev_done
     /\ ev_partial
     /\ \/ ev_region.type \in {"notequals", "less", "greater"}
        \/ ev_region.type = "equals" /\ ev_values # <<>>
        \/ /\ ev_region.type = "empty"
           /\ Len(SortedUnused(ev_pool)) >= Len(ev_region.cells) - Len(ev_values))
    => Completable(ev_region, ev_values, ev_pool)

\* C8 witness: an accepted partial list that leaves cells to fill
C8_Witness ==
    /\ ev_done
    /\ ev_partial
    /\ ev_region.type \in {"notequals", "less", "greater", "equals"}
    /\ ev_values # <<>>
    /\ Len(ev_values) + 2 <= Len(ev_region.cells)
    /\ Completable(ev_region, ev_values, ev_pool)

PoolMinus(pool, p) ==
    LET one == [pool EXCEPT ![p[3][1]] = @ - 1]
    IN  [one EXCEPT ![p[3][2]] = @ - 1]

\* the removed placements forward_check recorded for domino i
RemovedOf(removed, i) ==
    UNION {ToSet(removed[k][2]) : k \in {j \in DOMAIN removed : removed[j][1] = i}}

\* for the placement p, tested against the current grid with the pool
\* unused_values that still holds p's values: a region of p that can be
\* completed from the values left once p is placed passes region_ok_partial
SoundAt(p) ==
    LET reg1 == RegionOf(board, p[1])
        reg2 == RegionOf(board, p[2])
        left == PoolMinus(unused_values, p)
    IN  (/\ p[1] \in ValidCells(board) \ DOMAIN grid
         /\ p[2] \in ValidCells(board) \ DOMAIN grid)
        => /\ Completable(board.regions[reg1], Vals1(board, grid, p), left)
              => region_ok_partial(board.regions[reg1], Vals1(board, grid, p),
                                   unused_values)
           /\ (reg2 # reg1
               /\ Completable(board.regions[reg2], Vals2(board, grid, p), left))
              => region_ok_partial(board.regions[reg2], Vals2(board, grid, p),
                                   unused_values)

\* C9: region_ok_partial accepts whatever can be completed from the pool.
\* This also holds where the backtracking solver calls it: for the candidate
\* dfs is about to test, and for every placement forward_check has just
\* tested (kept or removed), the pool passed still holding the values of the
\* placement under test.
C9_PartialSound ==
    /\ (ev_done /\ Completable(ev_region, ev_values, ev_pool)) => ev_partial
    /\ (phase = "csp" /\ pc = "loop" /\ Top.i <= Len(remaining_domains[Top.d]))
          => SoundAt(remaining_domains[Top.d][Top.i])
    /\ (phase = "csp" /\ pc = "enter" /\ stack # <<>>)
          => \A i \in {j \in DOMAIN used : ~used[j]} :
                \A p \in ToSet(remaining_domains[i]) \cup RemovedOf(Top.removed, i) :
                    SoundAt(p)

\* C9 witness: dfs is about to test a candidate on free cells whose first
\* region is a sum or equals region that keeps an empty cell and can be
\* completed from the values left
C9_Witness ==
    /\ phase = "csp" /\ pc = "loop"
    /\ Top.i <= Len(remaining_domains[Top.d])
    /\ LET p == remaining_domains[Top.d][Top.i]
           r1 == board.regions[RegionOf(board, p[1])]
       IN  /\ p[1] \in ValidCells(board) \ DOMAIN grid
           /\ p[2] \in ValidCells(board) \ DOMAIN grid
           /\ r1.type \in {"sum", "equals"}
           /\ Len(Vals1(board, grid, p)) < Len(r1.cells)
           /\ Completable(r1, Vals1(board, grid, p), PoolMinus(unused_values, p))

\* whether the free cells can all be covered by k placements, each on two
\* adjacent free cells
RECURSIVE CanFill(_, _)
CanFill(free, k) ==
    IF free = {} THEN TRUE
    ELSE /\ k > 0
         /\ \E c1 \in free, c2 \in free :
               Adjacent(c1, c2) /\ CanFill(free \ {c1, c2}, k - 1)

\* C10: the heuristic of every A* state is at most the number of placements
\* still needed: no smaller number of placements fills the valid cells
C10_HeuristicAdmissible ==
    \A e \in frontier :
        \A k \in 0..(e.f - e.g - 1) :
            ~CanFill(ValidCells(board) \ DOMAIN e.grid, k)

\* C10 witness: a state of a four-cell board that two placements fill, with
\* heuristic 2
C10_Witness ==
    \E e \in frontier :
        /\ e.f - e.g = 2
        /\ CanFill(ValidCells(board) \ DOMAIN e.grid, 2)

\* C11: the A* goal test accepts a search state exactly when the success
\* condition of the backtracking solver (every domino used, the grid's keys
\* equal to the valid cells, every region passing region_ok_full) accepts it
C11_GoalTestsAgree ==
    goal_done => (goal_astar = goal_csp)

ScenarioGrids ==
    {(<<0, 0>> :> 2) @@ (<<0, 1>> :> 3), (<<0, 0>> :> 3) @@ (<<0, 1>> :> 2)}

C13_ScenarioSolved ==
    (board = ScenarioBoard /\ phase = "end") =>
        \A res \in {csp_result, astar_result, sa_result} :
            res.kind = "grid" /\ res.grid \in ScenarioGrids

\* how often x occurs in the list s
CountIn(s, x) == Cardinality({k \in DOMAIN s : s[k] = x})

\* the lists s and t hold the same elements with the same multiplicities
SameBag(s, t) ==
    /\ Len(s) = Len(t)
    /\ \A x \in ToSet(s) \cup ToSet(t) : CountIn(s, x) = CountIn(t, x)

\* C14: when the recursive call made after committing a candidate has
\* failed, the state before the next candidate is tried equals the state
\* before that candidate was tried: the same grid, the same unused_values,
\* and in every domain the same placements with the same multiplicities
C14_UndoRestores ==
    (phase = "csp" /\ pc = "loop" /\ Top.saved.set) =>
        /\ grid = Top.saved.grid
        /\ unused_values = Top.saved.unused_values
        /\ DOMAIN remaining_domains = DOMAIN Top.saved.remaining_domains
        /\ \A i \in DOMAIN remaining_domains :
              SameBag(remaining_domains[i], Top.saved.remaining_domains[i])

\* C14 witness: a candidate has been undone after forward_check had removed
\* placements, and a restored domain is in another order than before
C14_Witness ==
    /\ phase = "csp" /\ pc = "loop" /\ Top.saved.set
    /\ grid = Top.saved.grid
    /\ remaining_domains # Top.saved.remaining_domains

\* C15: after forward_check has returned, every placement left in the
\* domain of an unused domino has both cells free and passes
\* placement_is_valid in the current state, the removed and the kept
\* placements together are the domain before the call, and the domains of
\* the used dominoes are as they were
C15_ForwardCheckFilters ==
    (phase = "csp" /\ pc = "enter" /\ stack # <<>>) =>
        \A i \in DOMAIN used :
            LET before == Top.saved.remaining_domains[i]
                kept == remaining_domains[i]
                gone == {k \in DOMAIN Top.removed : Top.removed[k][1] = i}
            IN  IF used[i] THEN kept = before /\ gone = {}
                ELSE /\ \A k \in DOMAIN kept :
                          /\ kept[k][1] \notin DOMAIN grid
                          /\ kept[k][2] \notin DOMAIN grid
                          /\ placement_is_valid(board, grid, unused_values, kept[k])
                     /\ Cardinality(gone) <= 1
                     /\ \A k \in gone :
                          SameBag(kept \o Top.removed[k][2], before)
                     /\ gone = {} => kept = before

\* C15 witness: forward_check has returned having removed some placements of
\* an unused domino and kept others
C15_Witness ==
    /\ phase = "csp" /\ pc = "enter" /\ stack # <<>>
    /\ \E k \in DOMAIN Top.removed :
          /\ ~used[Top.removed[k][1]]
          /\ remaining_domains[Top.removed[k][1]] # <<>>

\* C16: the domino a dfs call works on has, among the dominoes unused when
\* it was selected, a smallest remaining domain, and the lowest index among
\* those with a domain of that size
C16_SelectsSmallestDomain ==
    (phase = "csp" /\ pc = "loop") =>
        \A j \in DOMAIN used :
            ~used[j] =>
                \/ Len(remaining_domains[Top.d]) < Len(remaining_domains[j])
                \/ /\ Len(remaining_domains[Top.d]) = Len(remaining_domains[j])
                   /\ Top.d < j

\* C16 witness: a domino was selected before an unused domino of lower index
\* whose domain is larger
C16_Witness ==
    /\ phase = "csp" /\ pc = "loop"
    /\ \E j \in DOMAIN used :
          /\ ~used[j]
          /\ j < Top.d
          /\ Len(remaining_domains[Top.d]) < Len(remaining_domains[j])

\* C20: at every entry to dfs the keys of the grid are the cells of the
\* committed placements, two cells for each used domino, and all of them
\* valid cells of the board
C20_GridIsCommittedCells ==
    (phase = "csp" /\ pc = "enter") =>
        /\ DOMAIN grid = UNION {{Committed[k][1], Committed[k][2]} : k \in DOMAIN stack}
        /\ Cardinality(DOMAIN grid) = 2 * Cardinality({i \in DOMAIN used : used[i]})
        /\ Cardinality({i \in DOMAIN used : used[i]}) = Len(stack)
        /\ \A k \in DOMAIN stack : used[stack[k].d]
        /\ DOMAIN grid \subseteq ValidCells(board)

\* C20 witness: dfs is entered with two dominoes committed on a board whose
\* bounding box has holes
C20_Witness ==
    /\ phase = "csp" /\ pc = "enter"
    /\ Len(stack) = 2
    /\ Cardinality(ValidCells(board)) < Rows(board) * Cols(board)

\* the number of values the pool holds
RECURSIVE PoolCount(_, _)
PoolCount(pool, vs) ==
    IF vs = {} THEN 0
    ELSE LET v == CHOOSE x \in vs : TRUE
         IN  pool[v] + PoolCount(pool, vs \ {v})

\* the sums the region can reach by filling its empty cells from the pool
ReachableSums(region, values, pool) ==
    {SeqSum(values) + SeqSum(ext) : ext \in Completions(region, values, pool)}

\* C17: for sum, less and greater regions region_ok_partial is false when
\* the pool holds fewer values than the region has empty cells; otherwise,
\* with min_possible and max_possible the least and the greatest sum the
\* region can reach by filling its r empty cells from the pool (the current
\* sum plus the r smallest, respectively largest, pool values), it is true
\* for sum iff min_possible <= target <= max_possible, for less iff
\* min_possible < target, for greater iff max_possible > target
C17_BoundsRule ==
    (ev_done /\ ev_region.type \in {"sum", "less", "greater"}) =>
        LET r == Len(ev_region.cells) - Len(ev_values)
            sums == ReachableSums(ev_region, ev_values, ev_pool)
            min_possible == CHOOSE x \in sums : \A y \in sums : x <= y
            max_possible == CHOOSE x \in sums : \A y \in sums : x >= y
            target == ev_region.target
        IN  ev_partial =
              IF PoolCount(ev_pool, DOMAIN ev_pool) < r THEN FALSE
              ELSE IF ev_region.type = "sum"
                   THEN min_possible <= target /\ target <= max_possible
              ELSE IF ev_region.type = "less" THEN min_possible < target
              ELSE max_possible > target

\* C17 witness: a sum region with a value collected and two cells empty is
\* accepted although no filling from the pool reaches the target
C17_Witness ==
    /\ ev_done /\ ev_partial
    /\ ev_region.type = "sum"
    /\ Len(ev_values) = 1
    /\ Len(ev_region.cells) = 3
    /\ \A x \in ReachableSums(ev_region, ev_values, ev_pool) : x # ev_region.target

\* C18 as stated: for an equals region with exactly one distinct value v
\* collected, region_ok_partial is false when fewer cells remain empty than
\* the pool holds copies of v
C18_FewerCellsThanCopies ==
    (/\ ev_done
     /\ ev_region.type = "equals"
     /\ Cardinality(ToSet(ev_values)) = 1
     /\ Len(ev_region.cells) - Len(ev_values) < ev_pool[ev_values[1]])
    => ~ev_partial

\* C18 amended: for an equals region with exactly one distinct value v
\* collected, region_ok_partial is false exactly when the pool holds fewer
\* copies of v than cells of the region remain empty
C18_Amended ==
    (/\ ev_done
     /\ ev_region.type = "equals"
     /\ Cardinality(ToSet(ev_values)) = 1)
    => (~ev_partial <=>
          ev_pool[ev_values[1]] < Len(ev_region.cells) - Len(ev_values))

\* C18 witness: an equals region with one value collected is rejected because
\* the pool holds one copy of the value and two cells remain empty
C18_Witness ==
    /\ ev_done /\ ~ev_partial
    /\ ev_region.type = "equals"
    /\ Len(ev_values) = 1
    /\ Len(ev_region.cells) = 3
    /\ ev_pool[ev_values[1]] = 1

\* C19 as stated: for a notequals region region_ok_partial is true iff the
\* collected values are pairwise distinct and the pip values with a positive
\* count anywhere in the pool are at least as many as the empty cells
C19_AnyPoolValue ==
    (ev_done /\ ev_region.type = "notequals") =>
        (ev_partial <=>
           /\ \A i, j \in DOMAIN ev_values : i # j => ev_values[i] # ev_values[j]
           /\ Cardinality({v \in DOMAIN ev_pool : ev_pool[v] > 0})
                 >= Len(ev_region.cells) - Len(ev_values))

\* C19 amended: for a notequals region region_ok_partial is true iff the
\* collected values are pairwise distinct and the pip values with a positive
\* count in the pool that are not among the collected values are at least as
\* many as the empty cells
C19_Amended ==
    (ev_done /\ ev_region.type = "notequals") =>
        (ev_partial <=>
           /\ \A i, j \in DOMAIN ev_values : i # j => ev_values[i] # ev_values[j]
           /\ Cardinality({v \in DOMAIN ev_pool :
                              /\ ev_pool[v] > 0
                              /\ \A i \in DOMAIN ev_values : ev_values[i] # v})
                 >= Len(ev_region.cells) - Len(ev_values))

\* C19 witness: a notequals region is rejected although its values are
\* distinct and the pool holds enough distinct values, one of them collected
C19_Witness ==
    /\ ev_done /\ ~ev_partial
    /\ ev_region.type = "notequals"
    /\ Len(ev_values) = Cardinality(ToSet(ev_values))
    /\ Cardinality({v \in DOMAIN ev_pool : ev_pool[v] > 0})
          >= Len(ev_region.cells) - Len(ev_values)

\* how often the pip value v occurs among the values of the dominoes in ds
PipCount(doms, ds, v) ==
    Cardinality({i \in ds : doms[i][1] = v}) + Cardinality({i \in ds : doms[i][2] = v})

\* C21: at every entry to dfs unused_values[v] is the number of occurrences
\* of v among the values of the dominoes not yet committed; no count is ever
\* negative; and when the loop of a dfs call is at a candidate (before any
\* commit, or after commits that were undone) the counts are those of the
\* uncommitted dominoes again, the call's own domino included
C21_PoolCountsUncommitted ==
    (phase = "csp" /\ pc \in {"enter", "loop"}) =>
        LET uncommitted ==
                {i \in DOMAIN used : ~used[i]}
                \cup (IF pc = "loop" THEN {Top.d} ELSE {})
        IN  \A v \in DOMAIN unused_values :
                /\ unused_values[v] >= 0
                /\ unused_values[v] = PipCount(board.dominoes, uncommitted, v)

\* C21 witness: a commit of the first dfs call has been undone, after the
\* calls below it failed, and the loop is at the next candidate with both
\* dominoes uncommitted again
C21_Witness ==
    /\ phase = "csp" /\ pc = "loop"
    /\ Len(stack) = 1
    /\ Len(board.dominoes) = 2
    /\ Top.saved.set
    /\ \E v \in DOMAIN unused_values : unused_values[v] > 0

\* C28: at every entry to dfs every region all of whose cells are in the
\* grid satisfies region_ok_full, so that the final test never rejects a
\* grid that covers the valid cells
C28_FilledRegionsAreOk ==
    (phase = "csp" /\ pc = "enter") =>
        /\ \A r \in DOMAIN board.regions :
              ToSet(board.regions[r].cells) \subseteq DOMAIN grid =>
                  region_ok_full(board.regions[r],
                      [k \in DOMAIN board.regions[r].cells |->
                          grid[board.regions[r].cells[k]]])
        /\ (AllUsed(used) /\ DOMAIN grid = ValidCells(board)) =>
              DfsGoalOk(board, grid)

\* C28 witness: dfs is entered with one region of two filled and constrained
\* and the other one still having an empty cell
C28_Witness ==
    /\ phase = "csp" /\ pc = "enter"
    /\ Len(board.regions) = 2
    /\ \E r \in DOMAIN board.regions :
          /\ board.regions[r].type \notin {"empty"}
          /\ ToSet(board.regions[r].cells) \subseteq DOMAIN grid
    /\ \E r \in DOMAIN board.regions :
          ~(ToSet(board.regions[r].cells) \subseteq DOMAIN grid)

\* C27: for a region with at least one cell, values that fill all of its
\* cells and a pool of non-negative counts, region_ok_partial and
\* region_ok_full return the same result
C27_PartialIsFullWhenFilled ==
    (/\ phase = "eval" /\ ev_done
     /\ Len(ev_region.cells) >= 1
     /\ Len(ev_values) = Len(ev_region.cells)
     /\ \A v \in DOMAIN ev_pool : ev_pool[v] >= 0)
        => (ev_partial = ev_full)

\* C27 witness: a filled region of three cells with a constraint that its
\* values break although the pool still holds values
C27_Witness ==
    /\ phase = "eval" /\ ev_done
    /\ Len(ev_region.cells) = 3
    /\ Len(ev_values) = 3
    /\ ev_region.type \notin {"empty"}
    /\ \E v \in DOMAIN ev_pool : ev_pool[v] > 0
    /\ ~ev_full /\ ~ev_partial

\* the value pairs of the state st are the value pairs of the dominoes doms,
\* each as often as it occurs among the dominoes (either orientation)
SameValuePairs(st, doms) ==
    \A a \in PipValues, bb \in PipValues :
        Cardinality({i \in DOMAIN st : st[i][3] \in {<<a, bb>>, <<bb, a>>}})
            = Cardinality({i \in DOMAIN doms : doms[i] \in {<<a, bb>>, <<bb, a>>}})

\* C25: in every state the annealing solver reaches, entry i is a placement
\* from the candidate list of domino i, and so the value pairs of the state
\* are the value pairs of the dominoes, each domino used once
C25_StateFromOwnOptions ==
    (phase = "sa" /\ sa_pc = "iter") =>
        /\ \A i \in DOMAIN state : state[i] \in ToSet(PlacementOptions(board)[i])
        /\ SameValuePairs(state, board.dominoes)

\* C22: both exact solvers terminate in the way they are meant to: while a
\* solver runs a step is enabled, the backtracking call ends by returning a
\* grid or None at the top level, and the A* call ends by popping a goal
\* state (a grid is returned) or by exhausting the frontier (None is returned)
C22_ExactSolversEnd ==
    /\ phase \in {"csp", "astar"} => ENABLED Next
    /\ phase \in {"astar", "sa", "end"} => csp_result.kind \in {"grid", "none"}
    /\ phase \in {"sa", "end"} => astar_result.kind \in {"grid", "none"}

\* what the A* runs of the model have in common: the start entry is the only
\* entry ever on the frontier, the counter stays 0, and the key of the start
\* state is the only key ever visited (the first expansion raises, or finds
\* no placement on free valid cells)
AStarPushesOnlyStart ==
    /\ \A e \in frontier :
          e.counter = 0 /\ e.g = 0 /\ e.used_mask = 0 /\ e.grid = EmptyGrid
    /\ counter = 0
    /\ visited \subseteq {<<0, EmptyGrid>>}
    /\ Cardinality(frontier) <= 1

(***************************************************************************)
(* The annealing solver called on its own, as evaluate_solvers and main    *)
(* call it; the call is sequential code, so a step that can be taken is    *)
(* eventually taken (weak fairness of the next-state relation).            *)
(***************************************************************************)
\* the boards of the annealing runs: a single cell, for which no placement
\* exists, and the 1x2 strip in two regions of one cell with one domino,
\* whose two orientations differ in energy
AnnealBoards ==
    OneRegionBoards(ShapeS, DominoSeqs(1))
    \cup TwoRegionBoards(ShapeB, DominoSeqs(1))

InitAnneal ==
    /\ \E b \in AnnealBoards : SolversInit(b, "sa")
    /\ EvalIdle
    /\ GoalIdle

NextAnneal ==
    \/ SABeginRestart \/ SAReturnSolved \/ SAIterate \/ SAEndRestart \/ SAFinish

SpecAnneal == InitAnneal /\ [][NextAnneal]_vars /\ WF_vars(NextAnneal)

\* C30: a zero-energy state is never lost: once the energy of the current
\* state is 0 at any point of any restart, the last iteration's acceptance
\* included, the call eventually returns the grid of a zero-energy state
C30_ZeroEnergyNeverLost ==
    (phase = "sa" /\ sa_pc = "iter" /\ energy = 0)
        ~> (/\ sa_result.kind = "grid"
            /\ compute_energy(sa_returned, board) = 0
            /\ sa_result.grid = state_to_grid(sa_returned))

\* C30 witness: the acceptance of the last iteration of the first restart
\* has produced a zero-energy state, which only the best-state tracking can
\* carry through the next restart
C30_Witness ==
    /\ phase = "sa" /\ sa_pc = "iter"
    /\ it = MaxIters /\ energy = 0
    /\ restart = 0
    /\ best_global_energy = Inf

\* evaluate_solvers on one parsed board
InitHarness ==
    /\ \E b \in {ScenarioBoard} : SolversInit(b, "harness")
    /\ EvalIdle
    /\ GoalIdle

NextHarness ==
    \/ TimedSolveStart \/ Tick \/ WorkerSend \/ PollTrue \/ JoinReturn
    \/ PollFalse \/ Record

SpecHarness == InitHarness /\ [][NextHarness]_vars

\* what the caller of evaluate_solvers holds about the call for solver s:
\* the recorded time, the solved count and the failed list
Recorded(s) ==
    [time |-> results[s].times, solved |-> results[s].solved, failed |-> failed[s]]

\* C26: a run that was terminated on the timeout is recorded as an outcome
\* distinct from a run whose solver returned None or raised: what is recorded
\* for the two runs (time, solved count, failed list) is not the same
C26_TimeoutRecordedDistinctly ==
    harness_pc = "end" =>
        \A i \in DOMAIN runs, j \in DOMAIN runs :
            (/\ runs[i].timed_out
             /\ ~runs[j].timed_out
             /\ runs[j].solver_fn \in {"none", "raised"})
                => Recorded(runs[i].solver) # Recorded(runs[j].solver)

\* what a run terminated on the timeout and a run whose solver returned None
\* or raised have in common: the board is appended to the solver's failed
\* list and the solved count stays 0; only the recorded time can differ
FailuresRecordedAlike ==
    harness_pc = "end" =>
        \A i \in DOMAIN runs :
            (runs[i].timed_out \/ runs[i].solver_fn \in {"none", "raised"})
                => /\ failed[runs[i].solver] = <<"board">>
                   /\ results[runs[i].solver].solved = 0
                   /\ (runs[i].timed_out =>
                          results[runs[i].solver].times = <<Timeout>>)

====
